---- MODULE Spec2Model ----
(***************************************************************************)
(* The document processing pipeline of legal-ai-backend: upload to the     *)
(* raw/ namespace, the background task trigger_analysis (extraction,       *)
(* analysis, persistence, status updates) and analyze_text.                *)
(*                                                                         *)
(* Conventions.  A text (a Python str) is a sequence of segments: Lit(s)   *)
(* is a run of characters that is not JSON (Lit(" ") is whitespace) and    *)
(* Ser(j) is the serialisation of the JSON value j.  A JSON value is a     *)
(* record [k, v] tagged "null", "num", "str", "list" or "obj".  The result *)
(* of a call is [exc, v]: exc is "none" or the class of the exception      *)
(* raised.  A blob name is a sequence of tokens, "raw/" or "processed/"    *)
(* first.                                                                  *)
(***************************************************************************)
EXTENDS Integers, Sequences, FiniteSets, TLC

VARIABLES
    store,            \* the bucket RAW_BUCKET: blob name -> [data, content_type]
    sink,             \* what _update_status_in_db is: "placeholder" or "database"
    pc,               \* per upload request: position of the request and of its task
    response,         \* per upload request: what the caller of /upload got
    task,             \* per request: arguments of the scheduled trigger_analysis
    extracted_text,   \* per task: local extracted_text
    analysis_result,  \* per task: local analysis_result
    emitted,          \* per task: the calls _update_status_in_db(doc_id, status) that returned
    extractCalls,     \* per task: how each call of extract_text_with_docai ended
    analyzeCalls,     \* per task: how each call of analyze_text ended
    llmCalls,         \* per task: external calls made inside analyze_text
    putCalls,         \* per task: results of blob.upload_from_string in _save_analysis_to_gcs
    propagated,       \* per task: exception that left trigger_analysis ("none" if none)
    call,             \* a direct call of one function, as a unit test makes it
    uploadCalls       \* per upload request: the external calls upload_document made

vars == <<store, sink, pc, response, task, extracted_text, analysis_result,
          emitted, extractCalls, analyzeCalls, llmCalls, putCalls, propagated, call,
          uploadCalls>>

----------------------------------------------------------------------------
(* Bounds *)

MaxUploads == 2      \* upload requests in one behaviour
MaxTextLen == 2      \* segments in a text given to analyze_text directly
MaxBlobs == 3        \* blobs in the bucket when the locator is called directly
MaxPages == 2        \* pages of a PDF, paragraphs of a DOCX

Requests == 1..MaxUploads

----------------------------------------------------------------------------
(* Texts and JSON values *)

Lit(s) == [k |-> "lit", v |-> s]
Ser(j) == [k |-> "ser", v |-> j]
WS == Lit(" ")

JNull     == [k |-> "null", v |-> 0]
JNum(n)   == [k |-> "num", v |-> n]
JStr(t)   == [k |-> "str", v |-> t]
JList(s)  == [k |-> "list", v |-> s]
JObj(f)   == [k |-> "obj", v |-> f]

Ok(v)    == [exc |-> "none", v |-> v]
Raise(e) == [exc |-> e, v |-> JNull]

\* the segments str.strip() removes: a blank and the separators of str.join
Whitespace == {WS, Lit("\n"), Lit("\n\n")}

RECURSIVE LStrip(_)
LStrip(t) == IF t # <<>> /\ Head(t) \in Whitespace THEN LStrip(Tail(t)) ELSE t

RECURSIVE RStrip(_)
RStrip(t) ==
    IF t # <<>> /\ t[Len(t)] \in Whitespace THEN RStrip(SubSeq(t, 1, Len(t) - 1)) ELSE t

\* str.strip()
Strip(t) == RStrip(LStrip(t))

\* json.dumps(obj, indent=2): the text that serialises obj
json_dumps(j) == <<Ser(j)>>

\* json.loads(s): a TypeError for a value that is no str, the value for one
\* serialised JSON value (whitespace around it allowed), else JSONDecodeError
json_loads(j) ==
    IF j.k # "str" THEN Raise("TypeError")
    ELSE LET s == Strip(j.v) IN
         IF Len(s) = 1 /\ s[1].k = "ser" THEN Ok(s[1].v)
         ELSE Raise("JSONDecodeError")

\* obj[key] for a str key
GetItemKey(j, key) ==
    IF j.k = "obj"
    THEN IF key \in DOMAIN j.v THEN Ok(j.v[key]) ELSE Raise("KeyError")
    ELSE Raise("TypeError")

\* obj[0]
GetItemFirst(j) ==
    CASE j.k = "list" -> IF j.v # <<>> THEN Ok(j.v[1]) ELSE Raise("IndexError")
      [] j.k = "str"  -> IF j.v # <<>> THEN Ok(JStr(<<Lit("c")>>)) ELSE Raise("IndexError")
      [] j.k = "obj"  -> Raise("KeyError")
      [] OTHER        -> Raise("TypeError")

\* the exception classes of the except clause of analyze_text, with the
\* subclasses the calls can raise
Subclasses(cls) ==
    CASE cls = "RequestException" ->
             {"RequestException", "Timeout", "ConnectionError", "HTTPError",
              "RequestsJSONDecodeError"}
      [] cls = "JSONDecodeError" -> {"JSONDecodeError", "RequestsJSONDecodeError"}
      [] OTHER -> {cls}

----------------------------------------------------------------------------
(* analyze_text *)

StrList(s) == JList([i \in 1..Len(s) |-> JStr(<<Lit(s[i])>>)])

Analysis(summary, pros, cons, loopholes) ==
    JObj([summary |-> JStr(summary), pros |-> StrList(pros), cons |-> StrList(cons),
          loopholes |-> StrList(loopholes)])

EmptyDocumentResult == Analysis(<<Lit("Document is empty.")>>, <<>>, <<>>, <<>>)
FailureResult == Analysis(<<Lit("Failed to analyze document.")>>, <<>>, <<>>, <<>>)

\* resp.json(): requests raises its own JSONDecodeError for a body that is not JSON
resp_json(body) ==
    LET r == json_loads(JStr(body)) IN
    IF r.exc = "JSONDecodeError" THEN Raise("RequestsJSONDecodeError") ELSE r

\* resp.raise_for_status()
raise_for_status(status) ==
    IF status >= 400 /\ status < 600 THEN Raise("HTTPError") ELSE Ok(JNull)

\* response_data["candidates"][0]["content"]["parts"][0]["text"]: the first
\* subscript that raises ends the evaluation
text_out(response_data) ==
    LET a == GetItemKey(response_data, "candidates") IN
    IF a.exc # "none" THEN a ELSE
    LET b == GetItemFirst(a.v) IN
    IF b.exc # "none" THEN b ELSE
    LET c == GetItemKey(b.v, "content") IN
    IF c.exc # "none" THEN c ELSE
    LET d == GetItemKey(c.v, "parts") IN
    IF d.exc # "none" THEN d ELSE
    LET e == GetItemFirst(d.v) IN
    IF e.exc # "none" THEN e ELSE GetItemKey(e.v, "text")

\* faulty variant: text_out is returned as it is, json.loads left out
TryBody_NoParse(llm) ==
    IF llm.k = "raise" THEN Raise(llm.exc) ELSE
    LET s == raise_for_status(llm.status) IN
    IF s.exc # "none" THEN s ELSE
    LET response_data == resp_json(llm.body) IN
    IF response_data.exc # "none" THEN response_data ELSE text_out(response_data.v)

\* the body of the try block: post, raise_for_status, json, text_out, json.loads
TryBody(llm) ==
    IF llm.k = "raise" THEN Raise(llm.exc) ELSE
    LET s == raise_for_status(llm.status) IN
    IF s.exc # "none" THEN s ELSE
    LET response_data == resp_json(llm.body) IN
    IF response_data.exc # "none" THEN response_data ELSE
    LET t == text_out(response_data.v) IN
    IF t.exc # "none" THEN t ELSE json_loads(t.v)

\* except (requests.RequestException, KeyError, IndexError, json.JSONDecodeError)
ExceptClause ==
    UNION {Subclasses(c) : c \in {"RequestException", "KeyError", "IndexError",
                                  "JSONDecodeError"}}

\* faulty variant: only `if not text`, the strip() test left out
IsBlank_NoStrip(text) == text = <<>>

\* if not text or not text.strip()
IsBlank(text) == text = <<>> \/ Strip(text) = <<>>

\* analyze_text(text) when _get_access_token ends as tok and requests.post as llm:
\* the result, with the external calls made
analyze_text(text, tok, llm) ==
    IF IsBlank(text)
    THEN [exc |-> "none", v |-> EmptyDocumentResult, calls |-> <<>>]
    ELSE IF tok # "none"
    THEN [exc |-> tok, v |-> JNull, calls |-> <<"token">>]
    ELSE LET r == TryBody(llm) IN
         IF r.exc = "none"
         THEN [exc |-> "none", v |-> r.v, calls |-> <<"token", "post">>]
         ELSE IF r.exc \in ExceptClause
         THEN [exc |-> "none", v |-> FailureResult, calls |-> <<"token", "post">>]
         ELSE [exc |-> r.exc, v |-> JNull, calls |-> <<"token", "post">>]

----------------------------------------------------------------------------
(* The environment: what the external services can answer *)

\* the texts of at most MaxTextLen segments
RECURSIVE TextsOfLen(_)
TextsOfLen(n) ==
    IF n = 0 THEN {<<>>}
    ELSE {Append(t, c) : t \in TextsOfLen(n - 1), c \in {WS, Lit("x")}}

DocTexts == UNION {TextsOfLen(n) : n \in 0..MaxTextLen}

\* texts Document AI returns in a pipeline run: one of each kind trigger_analysis
\* and analyze_text tell apart (empty, whitespace only, with content)
ExtractedTexts == {<<>>, <<WS>>, <<Lit("x")>>}

\* extract_text_with_docai: result.document.text, or the RuntimeError of line 56
ExtractOutcomes == {[exc |-> "RuntimeError", v |-> <<>>]} \cup {Ok(t) : t \in ExtractedTexts}

\* _get_access_token: a token, or the credential refresh fails
TokenOutcomes == {"none", "RefreshError"}

Canonical == Analysis(<<Lit("S")>>, <<"P">>, <<"C">>, <<"L">>)

\* the generateContent response whose first candidate's first part holds text t
Envelope(t) ==
    JObj([candidates |-> JList(<<JObj([content |->
        JObj([parts |-> JList(<<JObj([text |-> t])>>)])])>>)])

\* bodies whose first candidate's first part is a str holding JSON
GoodBodies ==
    { json_dumps(Envelope(JStr(json_dumps(Canonical)))),
      json_dumps(Envelope(JStr(json_dumps(JList(<<>>))))) }

\* generated text that is not JSON, an ill-typed or missing field, no candidate,
\* a body that is not JSON
BadBodies ==
    { json_dumps(Envelope(JStr(<<Lit("Here is the analysis.")>>))),
      json_dumps(Envelope(JStr(<<Lit("<fence json>"), Ser(Canonical), Lit("<fence>")>>))),
      json_dumps(Envelope(JStr(<<Lit("Here is the analysis:"), Ser(Canonical), Lit("Let me know.")>>))),
      json_dumps(Envelope(JNum(7))),
      json_dumps(JObj([error |-> JStr(<<Lit("quota")>>)])),
      json_dumps(JObj([candidates |-> JList(<<>>)])),
      json_dumps(JObj([candidates |-> JNull])),
      json_dumps(JObj([candidates |-> JList(<<JObj([finishReason |-> JStr(<<Lit("SAFETY")>>)])>>)])),
      <<Lit("<html>")>> }

ResponseBodies == GoodBodies \cup BadBodies

\* the example of the specification, in the four-key schema
AtWillExample ==
    Analysis(<<Lit("At-will termination clause.")>>, <<>>, <<"One-sided">>, <<>>)

\* JSON the model can generate outside the schema: an object with a key missing
\* and one extra, and list fields holding an empty string and a number
OffSchemaValues ==
    { JObj([summary |-> JStr(<<Lit("S")>>), verdict |-> JStr(<<Lit("risky")>>)]),
      JObj([summary |-> JStr(<<Lit("S")>>), pros |-> JList(<<JStr(<<>>)>>),
            cons |-> JList(<<JNum(7)>>), loopholes |-> JList(<<>>)]) }

\* further bodies whose first candidate's first part is a str holding JSON,
\* given to analyze_text when it is called directly
MoreGoodBodies ==
    {json_dumps(Envelope(JStr(json_dumps(j)))) : j \in {AtWillExample} \cup OffSchemaValues}

LlmOutcomes ==
    {[k |-> "raise", exc |-> e, status |-> 0, body |-> <<>>] : e \in {"Timeout", "ConnectionError"}}
    \cup {[k |-> "response", exc |-> "none", status |-> s, body |-> json_dumps(JObj([error |-> JStr(<<Lit("quota")>>)]))] :
             s \in {429, 500}}
    \cup {[k |-> "response", exc |-> "none", status |-> 200, body |-> b] : b \in ResponseBodies}

\* storage.Client(...), blob.upload_from_string(...)
StorageOutcomes == {"none", "GoogleAPIError"}

\* _update_status_in_db: the placeholder only prints; database logic can fail
SinkOutcomes == IF sink = "database" THEN {"none", "DatabaseError"} ELSE {"none"}

----------------------------------------------------------------------------
(* Blob names *)

ExtTokens == {".pdf", ".PDF", ".docx", ".txt", ".png", ".json"}

\* os.path.splitext
splitext(name) ==
    IF Len(name) > 1 /\ name[Len(name)] \in ExtTokens
    THEN [root |-> SubSeq(name, 1, Len(name) - 1), ext |-> <<name[Len(name)]>>]
    ELSE [root |-> name, ext |-> <<>>]

\* faulty variant: the identifier is not fresh, every upload gets the same one
Uuid_Reused(r) == <<"uuid1">>

\* str(uuid.uuid4()) of the r-th upload request: fresh for every request
Uuid(r) == <<"uuid" \o ToString(r)>>

\* f"raw/{doc_id_with_ext}"
RawName(doc_id_with_ext) == <<"raw/">> \o doc_id_with_ext

\* faulty variant: every run writes its result under one shared name
ProcessedName_Shared(doc_id) == <<"processed/", "latest", ".json">>

\* f"processed/{doc_id}.json"
ProcessedName(doc_id) == <<"processed/">> \o doc_id \o <<".json">>

\* blob.upload_from_string on the bucket
StorePut(s, name, blob) ==
    [n \in DOMAIN s \cup {name} |-> IF n = name THEN blob ELSE s[n]]

----------------------------------------------------------------------------
(* POST /upload *)

NoTask == [doc_id_with_ext |-> <<>>, mime_type |-> ""]

UploadFiles ==
    { [present |-> TRUE, filename |-> <<"contract", ".pdf">>,
       content |-> <<Lit("bytes")>>, content_type |-> "application/pdf"],
      [present |-> TRUE, filename |-> <<"notes">>,
       content |-> <<Lit("bytes")>>, content_type |-> ""],
      [present |-> TRUE, filename |-> <<"empty", ".txt">>,
       content |-> <<>>, content_type |-> "text/plain"],
      [present |-> FALSE, filename |-> <<>>, content |-> <<>>, content_type |-> ""] }

\* the handler for request r: the response, the bucket afterwards and the
\* background task added (NoTask if none)
\* an external call made by upload_document and how it ended
Called(f, exc) == [f |-> f, exc |-> exc]

\* faulty variant: an exception of blob.upload_from_string is swallowed
PutRaises_Swallowed(put) == FALSE

\* blob.upload_from_string(content, content_type=content_type) raises, which
\* takes upload_document to its except clause
PutRaises(put) == put # "none"

UploadResult(r, file, auth, put) ==
    LET doc_id_with_ext == Uuid(r) \o splitext(file.filename).ext
        content_type == IF file.content_type # "" THEN file.content_type
                        ELSE "application/octet-stream"
        read == <<Called("file.file.read", "none")>>
        client == read \o <<Called("storage.Client", auth)>>
        upload == client \o <<Called("blob.upload_from_string", put)>>
        refused(code, calls) ==
            [response |-> code, store |-> store, task |-> NoTask, calls |-> calls]
    IN  IF ~file.present THEN refused("400", <<>>)
        ELSE IF file.content = <<>> THEN refused("400", read)
        ELSE IF auth # "none" THEN refused("500", client)
        ELSE IF PutRaises(put) THEN refused("500", upload)
        ELSE [response |-> "processing",
              store |-> IF put = "none"
                        THEN StorePut(store, RawName(doc_id_with_ext),
                                      [data |-> file.content, content_type |-> content_type])
                        ELSE store,
              task |-> [doc_id_with_ext |-> doc_id_with_ext, mime_type |-> content_type],
              calls |-> upload \o <<Called("background_tasks.add_task", "none")>>]

upload_document(r) ==
    /\ pc[r] = "unused"
    /\ \A q \in Requests : q < r => pc[q] # "unused"
    /\ \E file \in UploadFiles, auth \in StorageOutcomes, put \in StorageOutcomes :
         LET u == UploadResult(r, file, auth, put) IN
         /\ response' = [response EXCEPT ![r] = u.response]
         /\ store' = u.store
         /\ task' = [task EXCEPT ![r] = u.task]
         /\ uploadCalls' = [uploadCalls EXCEPT ![r] = u.calls]
         /\ pc' = [pc EXCEPT ![r] = IF u.task = NoTask THEN "rejected" ELSE "queued"]
    /\ UNCHANGED <<sink, extracted_text, analysis_result, emitted, extractCalls,
                   analyzeCalls, llmCalls, putCalls, propagated, call>>

----------------------------------------------------------------------------
(* trigger_analysis, one action per external call *)

\* faulty variant: the extension is not stripped from the identifier
DocId_KeepsExtension(r) == task[r].doc_id_with_ext

\* doc_id, _ = os.path.splitext(doc_id_with_ext)
DocId(r) == splitext(task[r].doc_id_with_ext).root

\* _update_status_in_db(doc_id, status) ending as o
Emit(r, status, o) ==
    emitted' = IF o = "none"
               THEN [emitted EXCEPT ![r] = Append(@, [doc_id |-> DocId(r), status |-> status])]
               ELSE emitted

\* faulty variant: the except clause swallows the exception without a status
OnException_Swallowed == "done"

\* where an exception raised inside the try block goes
OnException == "fatal"

\* faulty variant: the empty-text test is missing
AfterExtraction_NoEmptyCheck(text) == "analyzing"

\* if not extracted_text: ... return
AfterExtraction(text) == IF text = <<>> THEN "empty" ELSE "analyzing"

\* faulty variant: the return is missing and the run goes on to the analysis
AfterEmpty_FallsThrough == "analyzing"

\* the return after error_empty_document
AfterEmpty == "done"

\* faulty variant: `processed` is emitted without the persistence step
AfterAnalysis_SkipsPersistence == "emit_processed"

\* after analyze_text returned: the storage client and _save_analysis_to_gcs
AfterAnalysis == "init_storage"

\* faulty variant: a fault of the extraction is followed by a second attempt
OnExtractFault_Retries == "extract"

\* an exception of extract_text_with_docai goes to the except clause
OnExtractFault == OnException

\* faulty variant: the except clause never returns
AfterFatal_NeverReturns == "blocked"

\* trigger_analysis returns after its except clause
AfterFatal == "done"

\* the exception that leaves _save_analysis_to_gcs when upload_from_string
\* ends as put: its except clause logs and returns
save_exception(put) == "none"

\* the exception that leaves the except clause of trigger_analysis when its
\* _update_status_in_db ends as o
handler_exception(o) == o

EmitExtracting(r) ==
    /\ pc[r] = "queued"
    /\ \E o \in SinkOutcomes :
         /\ Emit(r, "extracting_text", o)
         /\ pc' = [pc EXCEPT ![r] = IF o = "none" THEN "extract" ELSE OnException]
    /\ UNCHANGED <<store, sink, response, task, extracted_text, analysis_result,
                   extractCalls, analyzeCalls, llmCalls, putCalls, propagated, call,
                   uploadCalls>>

Extract(r) ==
    /\ pc[r] = "extract"
    /\ \E x \in ExtractOutcomes :
         /\ extracted_text' = [extracted_text EXCEPT ![r] = IF x.exc = "none" THEN x.v ELSE @]
         /\ pc' = [pc EXCEPT ![r] = IF x.exc = "none" THEN AfterExtraction(x.v)
                                    ELSE OnExtractFault]
         /\ extractCalls' = [extractCalls EXCEPT ![r] = Append(@, x.exc)]
    /\ UNCHANGED <<store, sink, response, task, analysis_result, emitted,
                   analyzeCalls, llmCalls, putCalls, propagated, call,
                   uploadCalls>>

EmitEmpty(r) ==
    /\ pc[r] = "empty"
    /\ \E o \in SinkOutcomes :
         /\ Emit(r, "error_empty_document", o)
         /\ pc' = [pc EXCEPT ![r] = IF o = "none" THEN AfterEmpty ELSE OnException]
    /\ UNCHANGED <<store, sink, response, task, extracted_text, analysis_result,
                   extractCalls, analyzeCalls, llmCalls, putCalls, propagated, call,
                   uploadCalls>>

EmitAnalyzing(r) ==
    /\ pc[r] = "analyzing"
    /\ \E o \in SinkOutcomes :
         /\ Emit(r, "analyzing", o)
         /\ pc' = [pc EXCEPT ![r] = IF o = "none" THEN "analyze" ELSE OnException]
    /\ UNCHANGED <<store, sink, response, task, extracted_text, analysis_result,
                   extractCalls, analyzeCalls, llmCalls, putCalls, propagated, call,
                   uploadCalls>>

\* for every text extraction can return, the ways analyze_text(text) can end,
\* over the outcomes of the token refresh and of the post
AnalyzeOutcomes ==
    [text \in ExtractedTexts |->
        {analyze_text(text, tok, llm) : tok \in TokenOutcomes, llm \in LlmOutcomes}]

Analyze(r) ==
    /\ pc[r] = "analyze"
    /\ \E a \in AnalyzeOutcomes[extracted_text[r]] :
         /\ analysis_result' = [analysis_result EXCEPT ![r] = a.v]
         /\ llmCalls' = [llmCalls EXCEPT ![r] = a.calls]
         /\ pc' = [pc EXCEPT ![r] = IF a.exc = "none" THEN AfterAnalysis ELSE OnException]
         /\ analyzeCalls' = [analyzeCalls EXCEPT ![r] = Append(@, a.exc)]
    /\ UNCHANGED <<store, sink, response, task, extracted_text, emitted,
                   extractCalls, putCalls, propagated, call,
                   uploadCalls>>

InitStorage(r) ==
    /\ pc[r] = "init_storage"
    /\ \E o \in StorageOutcomes :
         pc' = [pc EXCEPT ![r] = IF o = "none" THEN "save" ELSE OnException]
    /\ UNCHANGED <<store, sink, response, task, extracted_text, analysis_result, emitted,
                   extractCalls, analyzeCalls, llmCalls, putCalls, propagated, call,
                   uploadCalls>>

Save(r) ==
    /\ pc[r] = "save"
    /\ \E put \in StorageOutcomes :
         /\ store' = IF put = "none"
                     THEN StorePut(store, ProcessedName(DocId(r)),
                                   [data |-> json_dumps(analysis_result[r]),
                                    content_type |-> "application/json"])
                     ELSE store
         /\ putCalls' = [putCalls EXCEPT ![r] = Append(@, put)]
         /\ pc' = [pc EXCEPT ![r] = IF save_exception(put) = "none" THEN "emit_processed"
                                    ELSE OnException]
    /\ UNCHANGED <<sink, response, task, extracted_text, analysis_result, emitted,
                   extractCalls, analyzeCalls, llmCalls, propagated, call,
                   uploadCalls>>

EmitProcessed(r) ==
    /\ pc[r] = "emit_processed"
    /\ \E o \in SinkOutcomes :
         /\ Emit(r, "processed", o)
         /\ pc' = [pc EXCEPT ![r] = IF o = "none" THEN "done" ELSE OnException]
    /\ UNCHANGED <<store, sink, response, task, extracted_text, analysis_result,
                   extractCalls, analyzeCalls, llmCalls, putCalls, propagated, call,
                   uploadCalls>>

EmitFatal(r) ==
    /\ pc[r] = "fatal"
    /\ \E o \in SinkOutcomes :
         /\ Emit(r, "error_processing_failed", o)
         /\ propagated' = [propagated EXCEPT ![r] = handler_exception(o)]
    /\ pc' = [pc EXCEPT ![r] = AfterFatal]
    /\ UNCHANGED <<store, sink, response, task, extracted_text, analysis_result,
                   extractCalls, analyzeCalls, llmCalls, putCalls, call,
                   uploadCalls>>

----------------------------------------------------------------------------
(* analyze_text called directly *)

NoCall == [phase |-> "none", text |-> <<>>, tok |-> "none",
           llm |-> [k |-> "raise", exc |-> "Timeout", status |-> 0, body |-> <<>>],
           result |-> [exc |-> "none", v |-> JNull, calls |-> <<>>]]

\* every text, empty included, with every outcome of the token and of the post
DirectCalls ==
    {[NoCall EXCEPT !.phase = "pending", !.text = t, !.tok = tok, !.llm = llm] :
        t \in DocTexts, tok \in TokenOutcomes,
        llm \in LlmOutcomes \cup
                {[k |-> "response", exc |-> "none", status |-> 200, body |-> b] :
                    b \in MoreGoodBodies}}

CallAnalyzeText ==
    /\ call.phase = "pending"
    /\ call' = [call EXCEPT !.phase = "returned",
                            !.result = analyze_text(call.text, call.tok, call.llm)]
    /\ UNCHANGED <<store, sink, pc, response, task, extracted_text, analysis_result,
                   emitted, extractCalls, analyzeCalls, llmCalls, putCalls, propagated,
                   uploadCalls>>

----------------------------------------------------------------------------
(* services/documents.py: _find_blob_for_doc *)

\* name.startswith(prefix)
startswith(name, prefix) ==
    Len(prefix) <= Len(name) /\ SubSeq(name, 1, Len(prefix)) = prefix

\* str.lower() of an extension
lower(ext) ==
    [i \in 1..Len(ext) |-> IF ext[i] = ".PDF" THEN ".pdf" ELSE ext[i]]

\* the blobs bucket.list_blobs(prefix=prefix) yields, as a set
list_blobs(bucket, prefix) == {n \in bucket : startswith(n, prefix)}

\* the orders in which the storage backend can list a set of blobs
Listings(S) ==
    {l \in [1..Cardinality(S) -> S] : \A n \in S : \E i \in 1..Cardinality(S) : l[i] = n}

\* faulty variant: .txt is preferred to .pdf
priority_exts_TxtFirst == << <<".txt">>, <<".docx">>, <<".pdf">> >>

\* priority_exts = [".pdf", ".docx", ".txt"]
priority_exts == << <<".pdf">>, <<".docx">>, <<".txt">> >>

\* by_ext = {os.path.splitext(b.name)[1].lower(): b for b in blobs}: the keys,
\* and for a key the last blob listed with it
by_ext_keys(blobs) == {lower(splitext(blobs[i]).ext) : i \in 1..Len(blobs)}
by_ext(blobs, ext) ==
    LET at == {i \in 1..Len(blobs) : lower(splitext(blobs[i]).ext) = ext}
    IN  blobs[CHOOSE i \in at : \A j \in at : j <= i]

\* None
None == <<>>

\* _find_blob_for_doc when list(bucket.list_blobs(prefix=prefix)) is blobs
find_blob_for_doc(blobs, prefix) ==
    IF blobs = <<>> THEN None
    ELSE LET hits == {p \in 1..Len(priority_exts) :
                         /\ priority_exts[p] \in by_ext_keys(blobs)
                         /\ startswith(by_ext(blobs, priority_exts[p]), prefix)}
             starts == {i \in 1..Len(blobs) : startswith(blobs[i], prefix)}
         IN  IF hits # {}
             THEN by_ext(blobs, priority_exts[CHOOSE p \in hits : \A q \in hits : p <= q])
             ELSE IF starts # {}
             THEN blobs[CHOOSE i \in starts : \A j \in starts : i <= j]
             ELSE blobs[1]

\* blob names the bucket can hold under raw/
RawNames ==
    { <<"raw/", "a", ".pdf">>, <<"raw/", "a", ".PDF">>, <<"raw/", "a", ".docx">>,
      <<"raw/", "a", ".txt">>, <<"raw/", "a", ".png">>, <<"raw/", "a">>,
      <<"raw/", "a", "b", ".pdf">>, <<"raw/", "b", ".pdf">> }

Buckets == {B \in SUBSET RawNames : Cardinality(B) <= MaxBlobs}

CallFindBlob ==
    /\ call.phase = "pending"
    /\ call' = [call EXCEPT
                   !.phase = "returned",
                   !.result = find_blob_for_doc(call.listing, <<"raw/">> \o call.file_id),
                   !.reresult = find_blob_for_doc(call.relisting, <<"raw/">> \o call.file_id)]
    /\ UNCHANGED <<store, sink, pc, response, task, extracted_text, analysis_result,
                   emitted, extractCalls, analyzeCalls, llmCalls, putCalls, propagated,
                   uploadCalls>>

----------------------------------------------------------------------------
(* services/documents.py: the text extractors and get_document_text *)

\* sep.join(parts)
RECURSIVE join(_, _)
join(sep, parts) ==
    IF parts = <<>> THEN <<>>
    ELSE IF Len(parts) = 1 THEN parts[1]
    ELSE parts[1] \o <<sep>> \o join(sep, Tail(parts))

\* page.extract_text() or "", and "" when extract_text raises
page_text(page) == IF page.exc # "none" THEN <<>> ELSE page.v

\* text_parts: the page texts that are not empty, in page order
text_parts(pages) ==
    SelectSeq([i \in 1..Len(pages) |-> page_text(pages[i])], LAMBDA t : t # <<>>)

\* one library's pass over the pages: the body of a try block of
\* _extract_text_from_pdf, raising what opening the document raises
pdf_pass(read) ==
    IF read.exc # "none" THEN [exc |-> read.exc, v |-> <<>>]
    ELSE Ok(Strip(join(Lit("\n\n"), text_parts(read.pages))))

\* faulty variant: the PyPDF2 pass is not guarded
extract_text_from_pdf_Unguarded(data) ==
    IF pdf_pass(data.plumber).exc = "none" THEN pdf_pass(data.plumber)
    ELSE pdf_pass(data.pypdf)

\* _extract_text_from_pdf
extract_text_from_pdf(data) ==
    IF pdf_pass(data.plumber).exc = "none" THEN pdf_pass(data.plumber)
    ELSE IF pdf_pass(data.pypdf).exc = "none" THEN pdf_pass(data.pypdf)
    ELSE Ok(<<>>)

\* _extract_text_from_docx
extract_text_from_docx(data) ==
    IF data.docx.exc # "none" THEN Ok(<<>>)
    ELSE Ok(Strip(join(Lit("\n"), SelectSeq(data.docx.paragraphs, LAMBDA t : t # <<>>))))

\* _extract_text_generic: the strict decoding, else the one that drops the
\* undecodable bytes
extract_text_generic(data) ==
    IF data.utf8.exc = "none" THEN Ok(data.utf8.v) ELSE Ok(data.ignore)

\* lines 122-135 of get_document_text: the extractor chosen by the extension
\* of the blob, and the final strip
extract_by_ext(name, data) ==
    LET ext == lower(splitext(name).ext)
        text == IF ext = <<".pdf">> THEN extract_text_from_pdf(data)
                ELSE IF ext = <<".docx">> THEN extract_text_from_docx(data)
                ELSE extract_text_generic(data)
    IN  IF text.exc # "none" THEN text ELSE Ok(Strip(text.v))

\* if not file_id or not isinstance(file_id, str)
InvalidFileId(file_id) == file_id.k # "str" \/ file_id.v = <<>>

\* faulty variant: a missing document is reported like a storage fault
DocumentNotFound_AsRuntimeError == "RuntimeError"

\* raise LookupError("Document not found")
DocumentNotFound == "LookupError"

\* get_document_text(file_id) when the storage calls end as storage says, the
\* prefix is listed as listing and the libraries read the bytes as data says:
\* the result, the blob located and the storage calls made
get_document_text(file_id, storage, listing, data) ==
    IF InvalidFileId(file_id)
    THEN [exc |-> "LookupError", v |-> <<>>, blob |-> None, calls |-> <<>>]
    ELSE IF storage.init # "none"
    THEN [exc |-> "RuntimeError", v |-> <<>>, blob |-> None,
          calls |-> <<"_init_storage_client">>]
    ELSE IF storage.list # "none"
    THEN [exc |-> storage.list, v |-> <<>>, blob |-> None,
          calls |-> <<"_init_storage_client", "list_blobs">>]
    ELSE LET blob == find_blob_for_doc(listing, <<"raw/">> \o file_id.v)
         IN  IF blob = None
             THEN [exc |-> DocumentNotFound, v |-> <<>>, blob |-> None,
                   calls |-> <<"_init_storage_client", "list_blobs">>]
             ELSE IF storage.download # "none"
             THEN [exc |-> "RuntimeError", v |-> <<>>, blob |-> blob,
                   calls |-> <<"_init_storage_client", "list_blobs", "download_as_bytes">>]
             ELSE [exc |-> extract_by_ext(blob, data).exc,
                   v |-> extract_by_ext(blob, data).v, blob |-> blob,
                   calls |-> <<"_init_storage_client", "list_blobs", "download_as_bytes">>]

\* file_id as a caller can pass it: an identifier, "", a number, None
FileIds == {JStr(<<"a">>), JStr(<<>>), JNum(7), JNull}

\* the storage calls of get_document_text, with the first of them that fails
StorageFaults ==
    {[init |-> "none", list |-> "none", download |-> "none"],
     [init |-> "DefaultCredentialsError", list |-> "none", download |-> "none"],
     [init |-> "none", list |-> "GoogleAPIError", download |-> "none"],
     [init |-> "none", list |-> "none", download |-> "NotFound"]}

\* the buckets get_document_text is called on
TextBuckets ==
    {{}} \cup {{n} : n \in RawNames \ {<<"raw/", "a", "b", ".pdf">>}}
         \cup {{<<"raw/", "a", ".txt">>, <<"raw/", "a", ".pdf">>}}

\* what page.extract_text() does on a page: raises, returns None or "",
\* returns blank text, returns text
PageResults(s) ==
    {[exc |-> "PDFSyntaxError", v |-> <<>>], Ok(<<>>), Ok(<<WS>>), Ok(<<Lit(s)>>)}

\* what a PDF library makes of the bytes: it cannot open them, or it yields pages
CannotOpen == [exc |-> "PDFSyntaxError", pages |-> <<>>]
PdfReads(s) ==
    {CannotOpen} \cup
    UNION {{[exc |-> "none", pages |-> pp] : pp \in [1..n -> PageResults(s)]} : n \in 0..MaxPages}

\* what python-docx makes of the bytes
DocxCannotOpen == [exc |-> "PackageNotFoundError", paragraphs |-> <<>>]
DocxReads ==
    {DocxCannotOpen} \cup
    UNION {{[exc |-> "none", paragraphs |-> pp] : pp \in [1..n -> {<<>>, <<Lit("d")>>}]} :
               n \in 0..MaxPages}

\* bytes no library can read and of which decoding keeps nothing
Corrupt ==
    [plumber |-> CannotOpen, pypdf |-> CannotOpen, docx |-> DocxCannotOpen,
     utf8 |-> [exc |-> "UnicodeDecodeError", v |-> <<>>], ignore |-> <<>>]

\* byte payloads, by what pdfplumber, PyPDF2, python-docx and bytes.decode
\* make of them
Payloads ==
    {[Corrupt EXCEPT !.plumber = a, !.pypdf = b] :
        a \in PdfReads("p"),
        b \in {CannotOpen, [exc |-> "none", pages |-> <<Ok(<<Lit("q")>>)>>]}}
    \cup {[Corrupt EXCEPT !.pypdf = b] : b \in PdfReads("q")}
    \cup {[Corrupt EXCEPT !.docx = d] : d \in DocxReads}
    \cup {[Corrupt EXCEPT !.utf8 = Ok(t), !.ignore = t] :
              t \in {<<>>, <<Lit("x")>>, <<WS, Lit("x"), WS>>}}
    \cup {[Corrupt EXCEPT !.ignore = t] : t \in {<<Lit("x")>>, <<WS>>}}

CallGetDocumentText ==
    /\ call.phase = "pending"
    /\ call' = [call EXCEPT
                   !.phase = "returned",
                   !.result = get_document_text(call.file_id, call.storage,
                                                call.listing, call.data)]
    /\ UNCHANGED <<store, sink, pc, response, task, extracted_text, analysis_result,
                   emitted, extractCalls, analyzeCalls, llmCalls, putCalls, propagated,
                   uploadCalls>>

----------------------------------------------------------------------------
(* routes/documents.py: GET /documents/{file_id} *)

\* DocumentResult(doc_id=..., status="processed", analysis=analysis_data):
\* the model validates analysis as Dict[str, Any]
IsDict(j) == j.k = "obj"

\* an HTTPException with a status code
HttpError(code, doc_id) ==
    [code |-> code, doc_id |-> doc_id, status |-> "", analysis |-> JNull]

\* get_document_details(file_id) on the bucket s, when the storage calls inside
\* the try block end as storage
get_document_details(s, file_id, storage) ==
    LET doc_id == splitext(file_id).root
        processed_blob_name == ProcessedName(doc_id)
        raw_blobs == list_blobs(DOMAIN s, <<"raw/">> \o doc_id)
    IN  IF storage # "none" THEN HttpError("500", doc_id)
        ELSE IF processed_blob_name \in DOMAIN s
        THEN LET analysis_data == json_loads(JStr(s[processed_blob_name].data))
             IN  IF analysis_data.exc # "none" \/ ~IsDict(analysis_data.v)
                 THEN HttpError("500", doc_id)
                 ELSE [code |-> "200", doc_id |-> doc_id, status |-> "processed",
                       analysis |-> analysis_data.v]
        ELSE IF raw_blobs # {}
        THEN [code |-> "200", doc_id |-> doc_id, status |-> "processing",
              analysis |-> JNull]
        ELSE HttpError("404", doc_id)

\* the identifiers a client asks about: the ones handed out, one of them with
\* the extension of the upload, and one never handed out
QueryIds ==
    {Uuid(r) : r \in Requests} \cup {Uuid(1) \o <<".pdf">>, <<"unknown">>}

GetDocumentDetails ==
    /\ \E file_id \in QueryIds, storage \in StorageOutcomes :
         call' = [phase |-> "answered", file_id |-> file_id, storage |-> storage,
                  answer |-> get_document_details(store, file_id, storage)]
    /\ UNCHANGED <<store, sink, pc, response, task, extracted_text, analysis_result,
                   emitted, extractCalls, analyzeCalls, llmCalls, putCalls, propagated,
                   uploadCalls>>

----------------------------------------------------------------------------
(* routes/documents.py: DELETE /documents/{file_id} and delete_in_background *)

\* blob.delete() on the bucket
StoreDelete(s, name) == [n \in DOMAIN s \ {name} |-> s[n]]

\* the except clause of delete_in_background: the exception is logged and the
\* task returns
DeleteFailed(exc) == [call EXCEPT !.phase = "finished", !.fault = exc]

\* storage_client = _init_storage_client()
DeleteInit ==
    /\ call.phase = "scheduled"
    /\ \E o \in StorageOutcomes :
         call' = IF o # "none" THEN DeleteFailed(o) ELSE [call EXCEPT !.phase = "list"]
    /\ UNCHANGED store

\* raw_blobs_to_delete = list(bucket.list_blobs(prefix=f"raw/{doc_id_to_delete}"))
DeleteList ==
    /\ call.phase = "list"
    /\ \E o \in StorageOutcomes :
       \E l \in Listings(list_blobs(DOMAIN store, <<"raw/">> \o call.doc_id)) :
         call' = IF o # "none" THEN DeleteFailed(o)
                 ELSE [call EXCEPT !.raw_blobs_to_delete = l,
                                   !.phase = IF l = <<>> THEN "exists" ELSE "delete_raw"]
    /\ UNCHANGED store

\* blob.delete() for the next blob of raw_blobs_to_delete
DeleteRaw ==
    /\ call.phase = "delete_raw"
    /\ \E o \in StorageOutcomes :
         LET blob == Head(call.raw_blobs_to_delete)
             rest == Tail(call.raw_blobs_to_delete)
         IN  IF o # "none" \/ blob \notin DOMAIN store
             THEN /\ call' = DeleteFailed(IF o # "none" THEN o ELSE "NotFound")
                  /\ UNCHANGED store
             ELSE /\ store' = StoreDelete(store, blob)
                  /\ call' = [call EXCEPT !.raw_blobs_to_delete = rest,
                                          !.phase = IF rest = <<>> THEN "exists"
                                                    ELSE "delete_raw"]

\* if processed_blob.exists()
DeleteExists ==
    /\ call.phase = "exists"
    /\ \E o \in StorageOutcomes :
         call' = IF o # "none" THEN DeleteFailed(o)
                 ELSE [call EXCEPT !.phase = IF ProcessedName(call.doc_id) \in DOMAIN store
                                            THEN "delete_processed" ELSE "finished"]
    /\ UNCHANGED store

\* processed_blob.delete()
DeleteProcessed ==
    /\ call.phase = "delete_processed"
    /\ \E o \in StorageOutcomes :
         IF o # "none" \/ ProcessedName(call.doc_id) \notin DOMAIN store
         THEN /\ call' = DeleteFailed(IF o # "none" THEN o ELSE "NotFound")
              /\ UNCHANGED store
         ELSE /\ store' = StoreDelete(store, ProcessedName(call.doc_id))
              /\ call' = [call EXCEPT !.phase = "finished"]

\* the task delete_in_background(doc_id), one step per storage call
delete_in_background ==
    /\ DeleteInit \/ DeleteList \/ DeleteRaw \/ DeleteExists \/ DeleteProcessed
    /\ UNCHANGED <<sink, pc, response, task, extracted_text, analysis_result,
                   emitted, extractCalls, analyzeCalls, llmCalls, putCalls, propagated,
                   uploadCalls>>

----------------------------------------------------------------------------
(* frontend.py: the polling loop *)

\* st.session_state after the answer status_data to one GET of the loop;
\* polls is the parity of the number of polls made
AfterPoll(state, status_data) ==
    IF status_data.code # "200"
    THEN [state EXCEPT !.status = "error", !.polls = 1 - @]
    ELSE IF status_data.status = "processed"
    THEN [state EXCEPT !.status = "processed", !.analysis_result = status_data.analysis,
                       !.polls = 1 - @]
    ELSE IF status_data.status = "error"
    THEN [state EXCEPT !.status = "error", !.polls = 1 - @]
    ELSE [state EXCEPT !.polls = 1 - @]

\* one turn of  while st.session_state.status == "processing"
Poll ==
    /\ call.phase = "polling"
    /\ call.status = "processing"
    /\ \E storage \in StorageOutcomes :
         call' = AfterPoll(call, get_document_details(store, call.doc_id, storage))
    /\ UNCHANGED <<store, sink, pc, response, task, extracted_text, analysis_result,
                   emitted, extractCalls, analyzeCalls, llmCalls, putCalls, propagated,
                   uploadCalls>>

----------------------------------------------------------------------------
(* Specifications *)

InitWith(s) ==
    /\ store = <<>>
    /\ sink = s
    /\ pc = [r \in Requests |-> "unused"]
    /\ response = [r \in Requests |-> "none"]
    /\ task = [r \in Requests |-> NoTask]
    /\ extracted_text = [r \in Requests |-> <<>>]
    /\ analysis_result = [r \in Requests |-> JNull]
    /\ emitted = [r \in Requests |-> <<>>]
    /\ extractCalls = [r \in Requests |-> <<>>]
    /\ analyzeCalls = [r \in Requests |-> <<>>]
    /\ llmCalls = [r \in Requests |-> <<>>]
    /\ putCalls = [r \in Requests |-> <<>>]
    /\ propagated = [r \in Requests |-> "none"]
    /\ uploadCalls = [r \in Requests |-> <<>>]

\* the repository as it is: _update_status_in_db is the placeholder
Init == InitWith("placeholder") /\ call = NoCall

\* the placeholder replaced by database logic, which can raise
InitDatabase == InitWith("database") /\ call = NoCall

\* a direct call of analyze_text, no upload
InitAnalyze == InitWith("placeholder") /\ call \in DirectCalls

Next ==
    \E r \in Requests :
        \/ upload_document(r)
        \/ EmitExtracting(r)
        \/ Extract(r)
        \/ EmitEmpty(r)
        \/ EmitAnalyzing(r)
        \/ Analyze(r)
        \/ InitStorage(r)
        \/ Save(r)
        \/ EmitProcessed(r)
        \/ EmitFatal(r)

Spec == Init /\ [][Next]_vars

\* the steps of the task trigger_analysis scheduled for request r
trigger_analysis(r) ==
    \/ EmitExtracting(r)
    \/ Extract(r)
    \/ EmitEmpty(r)
    \/ EmitAnalyzing(r)
    \/ Analyze(r)
    \/ InitStorage(r)
    \/ Save(r)
    \/ EmitProcessed(r)
    \/ EmitFatal(r)

\* trigger_analysis(doc_id_with_ext, mime_type) scheduled for one request, as
\* upload_document leaves it once the raw blob is stored
RunScheduled ==
    /\ sink = "placeholder"
    /\ \E q \in Requests, file \in {f \in UploadFiles : f.present /\ f.content # <<>>} :
         LET doc_id_with_ext == Uuid(q) \o splitext(file.filename).ext
             content_type == IF file.content_type # "" THEN file.content_type
                             ELSE "application/octet-stream"
         IN  /\ store = StorePut(<<>>, RawName(doc_id_with_ext),
                                 [data |-> file.content, content_type |-> content_type])
             /\ task = [r \in Requests |->
                           IF r = q THEN [doc_id_with_ext |-> doc_id_with_ext,
                                          mime_type |-> content_type]
                           ELSE NoTask]
             /\ pc = [r \in Requests |-> IF r = q THEN "queued" ELSE "unused"]
             /\ response = [r \in Requests |-> IF r = q THEN "processing" ELSE "none"]
             /\ uploadCalls = [r \in Requests |->
                                  IF r = q THEN <<Called("file.file.read", "none"),
                                                  Called("storage.Client", "none"),
                                                  Called("blob.upload_from_string", "none"),
                                                  Called("background_tasks.add_task", "none")>>
                                  ELSE <<>>]
    /\ extracted_text = [r \in Requests |-> <<>>]
    /\ analysis_result = [r \in Requests |-> JNull]
    /\ emitted = [r \in Requests |-> <<>>]
    /\ extractCalls = [r \in Requests |-> <<>>]
    /\ analyzeCalls = [r \in Requests |-> <<>>]
    /\ llmCalls = [r \in Requests |-> <<>>]
    /\ putCalls = [r \in Requests |-> <<>>]
    /\ propagated = [r \in Requests |-> "none"]

InitRun == RunScheduled /\ call = NoCall

NextRun == \E r \in Requests : trigger_analysis(r)

\* the client of the scheduled run: the upload was answered `processing` and
\* the polling loop is entered with the identifier of the answer
InitPoll ==
    /\ RunScheduled
    /\ call = [phase |-> "polling",
               doc_id |-> Uuid(CHOOSE r \in Requests : pc[r] = "queued"),
               status |-> "processing", analysis_result |-> JNull, polls |-> 0]

NextPoll == NextRun \/ Poll

\* one run and its polling client: the task takes its steps and the loop keeps
\* polling while it sees `processing`
SpecPoll ==
    /\ InitPoll /\ [][NextPoll]_vars
    /\ \A r \in Requests : WF_vars(trigger_analysis(r))
    /\ WF_vars(Poll)

\* DELETE /documents/{file_id} for the document of the scheduled run: the
\* handler strips the extension and adds the task delete_in_background
InitDelete ==
    /\ RunScheduled
    /\ \E file_id \in {Uuid(CHOOSE r \in Requests : pc[r] = "queued"),
                        task[CHOOSE r \in Requests : pc[r] = "queued"].doc_id_with_ext} :
         call = [phase |-> "scheduled", doc_id |-> splitext(file_id).root,
                 raw_blobs_to_delete |-> <<>>, fault |-> "none"]

NextDelete == NextRun \/ delete_in_background

\* one run and a deletion of its document, interleaved in every way
SpecDelete == InitDelete /\ [][NextDelete]_vars

\* one run, when every external call returns or raises and the event loop
\* runs the scheduled task: a task that can take a step takes it
SpecRun == InitRun /\ [][NextRun]_vars /\ \A r \in Requests : WF_vars(trigger_analysis(r))

SpecDatabase == InitDatabase /\ [][Next]_vars

SpecAnalyze == InitAnalyze /\ [][CallAnalyzeText]_vars

\* the pipeline, with clients asking for the state of documents at any moment
NextQuery == Next \/ GetDocumentDetails

SpecQuery == Init /\ [][NextQuery]_vars

\* a direct call _find_blob_for_doc(bucket, "a"), on every bucket and for two
\* orders in which the backend lists the same blobs
InitLocate ==
    /\ InitWith("placeholder")
    /\ \E B \in Buckets :
         \E l \in Listings(list_blobs(B, <<"raw/", "a">>)),
            m \in Listings(list_blobs(B, <<"raw/", "a">>)) :
             call = [phase |-> "pending", file_id |-> <<"a">>, bucket |-> B,
                     listing |-> l, relisting |-> m, result |-> None, reresult |-> None]

SpecLocate == InitLocate /\ [][CallFindBlob]_vars

\* a direct call of get_document_text, for every identifier, bucket, listing
\* order, storage fault and payload
InitGetText ==
    /\ InitWith("placeholder")
    /\ \E id \in FileIds, B \in TextBuckets, st \in StorageFaults, d \in Payloads :
         \E l \in IF InvalidFileId(id) THEN {<<>>}
                   ELSE Listings(list_blobs(B, <<"raw/">> \o id.v)) :
             call = [phase |-> "pending", file_id |-> id, storage |-> st, bucket |-> B,
                     listing |-> l, data |-> d,
                     result |-> [exc |-> "none", v |-> <<>>, blob |-> None, calls |-> <<>>]]

SpecGetText == InitGetText /\ [][CallGetDocumentText]_vars

----------------------------------------------------------------------------
(* Vocabulary of the properties *)

Terminal == {"processed", "error_empty_document", "error_processing_failed"}

\* the statuses emitted by the task of request r, in order
Statuses(r) == [i \in 1..Len(emitted[r]) |-> emitted[r][i].status]

LastStatus(r) == IF emitted[r] = <<>> THEN "uploaded" ELSE emitted[r][Len(emitted[r])].status

IsPrefix(s, t) == Len(s) <= Len(t) /\ s = SubSeq(t, 1, Len(s))

\* processed/{id}.json for the identifier handed out to request r
ProcessedKey(r) == <<"processed/", "uuid" \o ToString(r), ".json">>

\* the blob under processed/{id}.json reads back as the analysis result of the run
BlobHoldsResult(r) ==
    /\ ProcessedKey(r) \in DOMAIN store
    /\ json_loads(JStr(store[ProcessedKey(r)].data)) = Ok(analysis_result[r])

\* extraction returned text with content and analyze_text returned
ExtractedAndAnalyzed(r) ==
    /\ extractCalls[r] = <<"none">> /\ extracted_text[r] # <<>>
    /\ analyzeCalls[r] = <<"none">>

\* the identifier a blob name belongs to, and the blobs of an identifier
BlobId(n) == splitext(Tail(n)).root
StoreIds == {BlobId(n) : n \in DOMAIN store}
RawBlobs(id) == {n \in DOMAIN store : n[1] = "raw/" /\ BlobId(n) = id}
ProcessedBlobs(id) == {n \in DOMAIN store : n[1] = "processed/" /\ BlobId(n) = id}

\* the tasks that emitted statuses for an identifier
RunsOf(id) == {r \in Requests : emitted[r] # <<>> /\ emitted[r][1].doc_id = id}

----------------------------------------------------------------------------
(* C1 *)

----------------------------------------------------------------------------
(* C2 *)

\* C2: once extraction has returned the empty text in a run, analyze_text is
\* never invoked, the run writes nothing under processed/{id}.json, and the
\* statuses emitted are extracting_text then error_empty_document and nothing
\* else (exactly these two when the run has finished).
C2_EmptyExtraction ==
    \A r \in Requests :
        extractCalls[r] = <<"none">> /\ extracted_text[r] = <<>>
            => /\ analyzeCalls[r] = <<>>
               /\ putCalls[r] = <<>>
               /\ ProcessedKey(r) \notin DOMAIN store
               /\ IsPrefix(Statuses(r), <<"extracting_text", "error_empty_document">>)
               /\ Statuses(r) # <<>>
               /\ (pc[r] = "done"
                      => Statuses(r) = <<"extracting_text", "error_empty_document">>)

C2_Witness ==
    \E r \in Requests :
        /\ extractCalls[r] = <<"none">> /\ extracted_text[r] = <<>>
        /\ pc[r] = "done"
        /\ Statuses(r) = <<"extracting_text", "error_empty_document">>

----------------------------------------------------------------------------
(* C3 *)

\* C3: once the extraction step has raised in a run, analyze_text is never
\* invoked, no processed artifact is written, and the statuses emitted are
\* extracting_text then error_processing_failed, which is the last one.
C3_ExtractionRaises ==
    \A r \in Requests :
        extractCalls[r] = <<"RuntimeError">>
            => /\ analyzeCalls[r] = <<>>
               /\ putCalls[r] = <<>>
               /\ ProcessedKey(r) \notin DOMAIN store
               /\ IsPrefix(Statuses(r), <<"extracting_text", "error_processing_failed">>)
               /\ Statuses(r) # <<>>
               /\ (pc[r] = "done"
                      => Statuses(r) = <<"extracting_text", "error_processing_failed">>)

C3_Witness ==
    \E r \in Requests :
        /\ extractCalls[r] = <<"RuntimeError">>
        /\ pc[r] = "done"
        /\ Statuses(r) = <<"extracting_text", "error_processing_failed">>

----------------------------------------------------------------------------
(* C4 *)

\* C4: in every run, if the put of processed/{id}.json raised, `processed` is
\* never emitted and the last status of the finished run is
\* error_processing_failed.
C4_PutFailureIsFatal ==
    \A r \in Requests :
        (\E i \in 1..Len(putCalls[r]) : putCalls[r][i] # "none")
            => /\ \A i \in 1..Len(emitted[r]) : emitted[r][i].status # "processed"
               /\ (pc[r] = "done" => LastStatus(r) = "error_processing_failed")

----------------------------------------------------------------------------
(* C5 *)

\* C5, as claimed: in every state and for every identifier, at most one raw
\* blob and at most one processed blob exist, and a processed blob exists only
\* if the status of the identifier's run is `processed`.
C5_AsClaimed ==
    \A id \in StoreIds :
        /\ Cardinality(RawBlobs(id)) <= 1
        /\ Cardinality(ProcessedBlobs(id)) <= 1
        /\ (ProcessedBlobs(id) # {}
               => \E r \in RunsOf(id) : LastStatus(r) = "processed")

\* C5, amended: in every state and for every identifier, at most one raw blob
\* and at most one processed blob exist, and a processed blob exists only if
\* the identifier's run has reached the persistence step: its status is
\* `analyzing` (the blob is written before `processed` is emitted) or
\* `processed`.
C5_BlobsPerIdentifier ==
    \A id \in StoreIds :
        /\ Cardinality(RawBlobs(id)) <= 1
        /\ Cardinality(ProcessedBlobs(id)) <= 1
        /\ (ProcessedBlobs(id) # {}
               => \E r \in RunsOf(id) : LastStatus(r) \in {"analyzing", "processed"})

C5_Witness ==
    \E r \in Requests :
        /\ pc[r] = "emit_processed"
        /\ LastStatus(r) = "analyzing"
        /\ ProcessedBlobs(<<"uuid" \o ToString(r)>>) = {ProcessedKey(r)}
        /\ Cardinality(RawBlobs(<<"uuid" \o ToString(r)>>)) = 1
        /\ Cardinality(DOMAIN store) > 2

----------------------------------------------------------------------------
(* C6 *)

----------------------------------------------------------------------------
(* C7 *)

\* C7: in every run a terminal status (processed, error_empty_document,
\* error_processing_failed) is only ever the last status emitted, nothing is
\* emitted after it, and a finished run has emitted exactly one.
C7_OneTerminalStatus ==
    \A r \in Requests :
        /\ \A i \in 1..Len(emitted[r]) :
              emitted[r][i].status \in Terminal => i = Len(emitted[r])
        /\ (LastStatus(r) \in Terminal => pc[r] = "done")
        /\ (pc[r] = "done" => LastStatus(r) \in Terminal)

C7_Witness ==
    \E r, q \in Requests :
        /\ pc[r] = "done" /\ pc[q] = "done"
        /\ Statuses(r) = <<"extracting_text", "analyzing", "error_processing_failed">>
        /\ Statuses(q) = <<"extracting_text", "error_empty_document">>

----------------------------------------------------------------------------
(* C8 *)

\* C8: for every text that is empty or holds whitespace only, analyze_text
\* makes no external call (no token, no post) and returns exactly
\* {summary: "Document is empty.", pros: [], cons: [], loopholes: []}.
C8_BlankInput ==
    call.phase = "returned" /\ (\A i \in 1..Len(call.text) : call.text[i] = Lit(" "))
        => /\ call.result.exc = "none"
           /\ call.result.calls = <<>>
           /\ call.result.v =
                 JObj([summary |-> JStr(<<Lit("Document is empty.")>>),
                       pros |-> JList(<<>>), cons |-> JList(<<>>),
                       loopholes |-> JList(<<>>)])

C8_Witness ==
    /\ call.phase = "returned"
    /\ call.text = <<Lit(" "), Lit(" ")>>
    /\ call.tok = "RefreshError"
    /\ call.result.calls = <<>>
    /\ call.result.v = EmptyDocumentResult

----------------------------------------------------------------------------
(* C9 *)

\* the LLM interaction failed: a network fault or timeout, a non-2xx answer,
\* or a body other than one whose first candidate's first part holds JSON
LlmFailed(llm) ==
    llm.k = "raise" \/ llm.status # 200 \/ llm.body \notin GoodBodies \cup MoreGoodBodies

\* C9: for every text with content and every failure of the LLM interaction,
\* analyze_text does not raise and returns exactly
\* {summary: "Failed to analyze document.", pros: [], cons: [], loopholes: []}.
C9_FailureAbsorbed ==
    /\ call.phase = "returned"
    /\ (\E i \in 1..Len(call.text) : call.text[i] # Lit(" "))
    /\ call.tok = "none"
    /\ LlmFailed(call.llm)
    => /\ call.result.exc = "none"
       /\ call.result.v =
             JObj([summary |-> JStr(<<Lit("Failed to analyze document.")>>),
                   pros |-> JList(<<>>), cons |-> JList(<<>>),
                   loopholes |-> JList(<<>>)])

----------------------------------------------------------------------------
(* C10 *)

\* C10: in every run where extraction returned non-empty text, the analysis
\* step never raises whatever its failure mode (credential, timeout, non-2xx,
\* malformed payload), so it never leads to error_processing_failed: the run
\* goes on to persistence and, when the put succeeded, ends in `processed`.
C10_AnalysisNeverFatal ==
    \A r \in Requests :
        analyzeCalls[r] # <<>>
            => /\ analyzeCalls[r] = <<"none">>
               /\ (pc[r] = "done" /\ putCalls[r] = <<"none">>
                      => LastStatus(r) = "processed")

----------------------------------------------------------------------------
(* C11 *)

\* an object with exactly the keys summary, pros, cons, loopholes, summary a
\* string and the other three lists of non-empty strings
InSchema(j) ==
    /\ j.k = "obj"
    /\ DOMAIN j.v = {"summary", "pros", "cons", "loopholes"}
    /\ j.v["summary"].k = "str"
    /\ \A f \in {"pros", "cons", "loopholes"} :
          /\ j.v[f].k = "list"
          /\ \A i \in 1..Len(j.v[f].v) :
                /\ j.v[f].v[i].k = "str"
                /\ \E n \in 1..Len(j.v[f].v[i].v) : j.v[f].v[i].v[n] # Lit(" ")

\* the llm answered 200 with a body whose first candidate's first part is text t
Generated(llm, t) ==
    /\ llm.k = "response" /\ llm.status = 200
    /\ llm.body = <<Ser(Envelope(JStr(t)))>>

\* C11: for every text the LLM can return, the value analyze_text returns is an
\* object with exactly the four keys summary, pros, cons, loopholes, where
\* summary is a string and the other three are sequences of non-empty strings.
C11_ResultInSchema ==
    call.phase = "returned" /\ call.result.exc = "none" => InSchema(call.result.v)

----------------------------------------------------------------------------
(* C12 *)

SchemaObjects ==
    { JObj([summary |-> JStr(<<Lit("S")>>), pros |-> JList(<<JStr(<<Lit("P")>>)>>),
            cons |-> JList(<<JStr(<<Lit("C")>>)>>),
            loopholes |-> JList(<<JStr(<<Lit("L")>>)>>)]),
      JObj([summary |-> JStr(<<Lit("At-will termination clause.")>>),
            pros |-> JList(<<>>), cons |-> JList(<<JStr(<<Lit("One-sided")>>)>>),
            loopholes |-> JList(<<>>)]) }

\* C12: for every text with content, when the LLM call succeeds and the text of
\* the first candidate's first part is a JSON object in the four-key schema,
\* analyze_text returns a result identical to that object.
C12_SchemaObjectReturned ==
    \A j \in SchemaObjects :
        /\ call.phase = "returned"
        /\ (\E i \in 1..Len(call.text) : call.text[i] # Lit(" "))
        /\ call.tok = "none"
        /\ Generated(call.llm, <<Ser(j)>>)
        => call.result.exc = "none" /\ call.result.v = j

C12_Witness ==
    /\ call.phase = "returned"
    /\ call.text = <<Lit(" "), Lit("x")>>
    /\ call.tok = "none"
    /\ Generated(call.llm, <<Ser(AtWillExample)>>)
    /\ call.result.v = AtWillExample
    /\ call.result.calls = <<"token", "post">>

----------------------------------------------------------------------------
(* C13 *)

\* C13: the generated text is parsed as a whole, else the interior of a fenced
\* block, else the part from the first brace to the last: an object that is
\* the whole text, is wrapped in a fenced block or is embedded in commentary
\* is returned exactly, and text with no recoverable JSON yields the all-empty
\* schema (summary empty, three empty lists).
C13_RecoversJson ==
    /\ call.phase = "returned"
    /\ (\E i \in 1..Len(call.text) : call.text[i] # Lit(" "))
    /\ call.tok = "none"
    => /\ \A j \in SchemaObjects :
             \/ Generated(call.llm, <<Ser(j)>>)
             \/ Generated(call.llm, <<Lit("<fence json>"), Ser(j), Lit("<fence>")>>)
             \/ Generated(call.llm, <<Lit("Here is the analysis:"), Ser(j), Lit("Let me know.")>>)
             => call.result.exc = "none" /\ call.result.v = j
       /\ (Generated(call.llm, <<Lit("Here is the analysis.")>>)
             => /\ call.result.exc = "none"
                /\ call.result.v =
                      JObj([summary |-> JStr(<<>>), pros |-> JList(<<>>),
                            cons |-> JList(<<>>), loopholes |-> JList(<<>>)]))

----------------------------------------------------------------------------
(* C14 *)

\* the blobs of a listing whose extension is one of exts
WithExt(blobs, exts) == {blobs[i] : i \in {j \in 1..Len(blobs) : blobs[j][Len(blobs[j])] \in exts}}

\* C14: for every set of blobs listed under raw/{id}, _find_blob_for_doc
\* returns a .pdf blob if one is listed, else a .docx blob if one is listed,
\* else a .txt blob if one is listed, the extension compared without case; with
\* a .txt and a .pdf blob it returns the .pdf blob.
C14_ExtensionPriority ==
    call.phase = "returned" =>
        LET pdf == WithExt(call.listing, {".pdf", ".PDF"})
            docx == WithExt(call.listing, {".docx"})
            txt == WithExt(call.listing, {".txt"})
        IN  /\ pdf # {} => call.result \in pdf
            /\ pdf = {} /\ docx # {} => call.result \in docx
            /\ pdf = {} /\ docx = {} /\ txt # {} => call.result \in txt

C14_Witness ==
    /\ call.phase = "returned"
    /\ call.listing = << <<"raw/", "a", ".txt">>, <<"raw/", "a", ".PDF">>, <<"raw/", "a", ".png">> >>
    /\ call.result = <<"raw/", "a", ".PDF">>

----------------------------------------------------------------------------
(* C15 *)

\* no blob of the bucket has a name that starts with raw/a
NothingUnderRawA == \A n \in call.bucket : ~(Len(n) >= 2 /\ n[1] = "raw/" /\ n[2] = "a")

\* C15: get_document_text raises LookupError, with no blob located, when no
\* blob is under raw/{id}; it raises RuntimeError when storage authentication
\* or the download fails; for an empty or non-string identifier it raises
\* LookupError and makes no storage call.
C15_NotFoundIsDistinct ==
    call.phase = "returned" =>
        /\ (call.file_id # JStr(<<"a">>)) =>
               call.result.exc = "LookupError" /\ call.result.calls = <<>>
        /\ (/\ call.file_id = JStr(<<"a">>)
            /\ call.storage.init = "none" /\ call.storage.list = "none"
            /\ NothingUnderRawA) =>
               call.result.exc = "LookupError" /\ call.result.blob = <<>>
        /\ (call.file_id = JStr(<<"a">>) /\ call.storage.init # "none") =>
               call.result.exc = "RuntimeError"
        /\ (/\ call.file_id = JStr(<<"a">>) /\ call.storage.download # "none"
            /\ ~NothingUnderRawA) =>
               call.result.exc = "RuntimeError"

C15_Witness ==
    /\ call.phase = "returned"
    /\ call.file_id = JStr(<<"a">>)
    /\ call.bucket = {<<"raw/", "b", ".pdf">>}
    /\ call.result.exc = "LookupError"
    /\ call.result.calls = <<"_init_storage_client", "list_blobs">>

----------------------------------------------------------------------------
(* C16 *)

\* C16: the blob _find_blob_for_doc returns is the same for every order in
\* which the storage backend lists the same set of blobs under raw/{id}.
C16_OrderIndependent ==
    call.phase = "returned" => call.result = call.reresult

----------------------------------------------------------------------------
(* C17 *)

\* the run of request r has ended with an error status
EndedInError(r) ==
    /\ pc[r] = "done"
    /\ LastStatus(r) \in {"error_empty_document", "error_processing_failed"}

\* C17: a query answered after the run for its identifier has ended in
\* error_empty_document or error_processing_failed, with storage reachable,
\* reports an error status and does not report `processing`.
C17_ErrorIsSurfaced ==
    [][\A r \in Requests :
          (/\ call' # call
           /\ call'.phase = "answered"
           /\ call'.storage = "none"
           /\ call'.file_id = <<"uuid" \o ToString(r)>>
           /\ EndedInError(r))
              => /\ call'.answer.status # "processing"
                 /\ call'.answer.status \in {"error", "error_empty_document",
                                             "error_processing_failed"}]_vars

----------------------------------------------------------------------------
(* C18 *)

\* the calls of blob.upload_from_string made for request r that returned, and
\* the calls of background_tasks.add_task made for it
PutsDone(r) ==
    {i \in 1..Len(uploadCalls[r]) :
        uploadCalls[r][i] = [f |-> "blob.upload_from_string", exc |-> "none"]}
TasksAdded(r) ==
    {i \in 1..Len(uploadCalls[r]) : uploadCalls[r][i].f = "background_tasks.add_task"}

\* the raw blobs stored for the identifier of request r
RawBlobsOf(r) ==
    {n \in DOMAIN store : Len(n) >= 2 /\ n[1] = "raw/" /\ n[2] = "uuid" \o ToString(r)}

\* the external calls of request r that raised
FailedCalls(r) ==
    {i \in 1..Len(uploadCalls[r]) : uploadCalls[r][i].exc # "none"}

\* C18: an upload answered `processing` has exactly one task scheduled, after a
\* put that returned, and its raw blob is stored; an upload in which the file
\* is missing or empty or a storage call raised has no task, is not answered
\* `processing`, and when no put returned nothing is stored for it.
C18_TaskOnlyAfterStore ==
    \A r \in Requests :
        /\ response[r] = "processing" =>
              /\ Cardinality(TasksAdded(r)) = 1
              /\ \E i \in PutsDone(r) : \A j \in TasksAdded(r) : i < j
              /\ Cardinality(RawBlobsOf(r)) = 1
              /\ task[r] # NoTask
        /\ (pc[r] # "unused" /\ (PutsDone(r) = {} \/ FailedCalls(r) # {})) =>
              /\ TasksAdded(r) = {}
              /\ task[r] = NoTask
              /\ response[r] \in {"400", "500"}
        /\ (pc[r] # "unused" /\ PutsDone(r) = {}) => RawBlobsOf(r) = {}

C18_Witness ==
    /\ response[1] = "processing"
    /\ <<"raw/", "uuid1", ".pdf">> \in DOMAIN store
    /\ Len(uploadCalls[1]) = 4
    /\ response[2] = "400"
    /\ uploadCalls[2] = <<[f |-> "file.file.read", exc |-> "none"]>>
    /\ RawBlobsOf(2) = {}

----------------------------------------------------------------------------
(* C20 *)

\* the position of a status among the statuses emitted for request r, 0 if absent
PositionOf(r, status) ==
    IF \E i \in 1..Len(emitted[r]) : emitted[r][i].status = status
    THEN CHOOSE i \in 1..Len(emitted[r]) : emitted[r][i].status = status
    ELSE 0

\* C20: a run whose last status is `processed` has emitted exactly
\* extracting_text, analyzing, processed, in that order; extraction is invoked
\* only once extracting_text is emitted, analysis only once analyzing is
\* emitted, and processed is emitted only once the persistence step has
\* returned; every emission carries the identifier of the upload without its
\* extension.
C20_StatusOrder ==
    \A r \in Requests :
        /\ LastStatus(r) = "processed" =>
               Statuses(r) = <<"extracting_text", "analyzing", "processed">>
        /\ extractCalls[r] # <<>> => PositionOf(r, "extracting_text") = 1
        /\ analyzeCalls[r] # <<>> => PositionOf(r, "analyzing") = 2
        /\ PositionOf(r, "processed") # 0 =>
               /\ putCalls[r] # <<>>
               /\ pc[r] \notin {"init_storage", "save"}
        /\ \A i \in 1..Len(emitted[r]) :
               emitted[r][i].doc_id = <<"uuid" \o ToString(r)>>

C20_Witness ==
    /\ pc[1] = "done"
    /\ task[1].doc_id_with_ext = <<"uuid1", ".pdf">>
    /\ emitted[1] = <<[doc_id |-> <<"uuid1">>, status |-> "extracting_text"],
                      [doc_id |-> <<"uuid1">>, status |-> "analyzing"],
                      [doc_id |-> <<"uuid1">>, status |-> "processed"]>>
    /\ putCalls[1] = <<"none">>

----------------------------------------------------------------------------
(* C19 *)

\* get_document_text reached the extraction: the blob was downloaded
Downloaded ==
    /\ call.phase = "returned"
    /\ Len(call.result.calls) = 3
    /\ call.storage.download = "none"

\* every strategy that applies to the located blob faults on the payload
EveryStrategyFaults ==
    LET ext == call.result.blob[Len(call.result.blob)]
    IN  \/ ext \in {".pdf", ".PDF"} /\ call.data.plumber.exc # "none"
                                    /\ call.data.pypdf.exc # "none"
        \/ ext = ".docx" /\ call.data.docx.exc # "none"

\* C19: once the blob is downloaded, get_document_text raises nothing whatever
\* the libraries make of the payload, and returns the empty string when every
\* strategy that applies to the payload faults.
C19_ExtractionNeverRaises ==
    Downloaded =>
        /\ call.result.exc = "none"
        /\ EveryStrategyFaults => call.result.v = <<>>

C19_Witness ==
    /\ Downloaded
    /\ call.result.blob = <<"raw/", "a", ".pdf">>
    /\ call.data.plumber.exc # "none"
    /\ call.data.pypdf.exc # "none"
    /\ call.result = [exc |-> "none", v |-> <<>>, blob |-> <<"raw/", "a", ".pdf">>,
                      calls |-> <<"_init_storage_client", "list_blobs", "download_as_bytes">>]

----------------------------------------------------------------------------
(* C21 *)

\* the task of request r has been scheduled and has not returned
Running(r) == pc[r] \notin {"unused", "rejected", "done"}

\* the task of request r has returned with a terminal status as its last one
Finished(r) == pc[r] = "done" /\ LastStatus(r) \in Terminal

\* C21: when every external call returns or raises, every run of
\* trigger_analysis that was started eventually has a terminal status as its
\* last emission and has returned, and stays so.
C21_RunTerminates ==
    \A r \in Requests : Running(r) ~> [](Finished(r))

C21_Witness ==
    /\ Finished(1)
    /\ LastStatus(1) = "error_processing_failed"
    /\ extractCalls[1] = <<"RuntimeError">>

----------------------------------------------------------------------------
(* C25 *)

\* C25: no run invokes the extraction or the analysis twice; a run that has
\* returned invoked the extraction once, and invoked the analysis once if the
\* extraction returned text that is not empty, and not at all otherwise.
C25_NoRetry ==
    \A r \in Requests :
        /\ Len(extractCalls[r]) <= 1
        /\ Len(analyzeCalls[r]) <= 1
        /\ pc[r] = "done" =>
              /\ Len(extractCalls[r]) = 1
              /\ Len(analyzeCalls[r]) =
                    IF extractCalls[r] = <<"none">> /\ extracted_text[r] # <<>>
                    THEN 1 ELSE 0

C25_Witness ==
    /\ pc[1] = "done" /\ extractCalls[1] = <<"RuntimeError">> /\ analyzeCalls[1] = <<>>
    /\ pc[2] = "done" /\ extractCalls[2] = <<"none">> /\ analyzeCalls[2] = <<"RefreshError">>

----------------------------------------------------------------------------
(* C22 *)

\* C22: once the run of the polled document has ended with a terminal status,
\* the polling loop eventually sees a value other than `processing` and stops.
C22_PollingStops ==
    \A r \in Requests :
        (Finished(r) /\ call.doc_id = <<"uuid" \o ToString(r)>>)
            ~> (call.status \in {"processed", "error"})

----------------------------------------------------------------------------
(* C23 *)

\* the identifier a query is about: the file_id without its extension
QueriedId(file_id) ==
    IF file_id[Len(file_id)] = ".pdf" THEN SubSeq(file_id, 1, Len(file_id) - 1) ELSE file_id

\* processed/{id}.json exists; a blob is listed under raw/{id}
HasProcessed(id) == (<<"processed/">> \o id \o <<".json">>) \in DOMAIN store
HasRaw(id) ==
    \E n \in DOMAIN store :
        /\ n[1] = "raw/"
        /\ Len(n) > Len(id)
        /\ \A i \in 1..Len(id) : n[i + 1] = id[i]

\* C23: a query answered with storage reachable reports `processed`, with the
\* stored analysis, exactly when processed/{id}.json exists; otherwise
\* `processing` exactly when a blob is listed under raw/{id}; otherwise 404,
\* never 500; and it leaves the store as it was.
C23_AnswerMatchesStore ==
    [][(call' # call /\ call'.phase = "answered" /\ call'.storage = "none") =>
          LET id == QueriedId(call'.file_id)
              answer == call'.answer
          IN  /\ answer.status = "processed" <=> HasProcessed(id)
              /\ HasProcessed(id) =>
                    store[<<"processed/">> \o id \o <<".json">>].data = <<Ser(answer.analysis)>>
              /\ ~HasProcessed(id) => (answer.status = "processing" <=> HasRaw(id))
              /\ (~HasProcessed(id) /\ ~HasRaw(id)) => answer.code = "404"
              /\ store' = store]_vars

----------------------------------------------------------------------------
(* C24 *)

\* the blobs of a bucket that carry the identifier handed out to request r
OwnBlobs(r, s) ==
    [n \in {m \in DOMAIN s : Len(m) >= 2 /\ m[2] = "uuid" \o ToString(r)} |-> s[n]]

\* everything that belongs to the run of request r
Projection(r) ==
    <<pc[r], task[r], emitted[r], extracted_text[r], analysis_result[r], extractCalls[r],
      analyzeCalls[r], llmCalls[r], putCalls[r], propagated[r], OwnBlobs(r, store)>>

\* C24: in every interleaving, a step changes what belongs to at most one run;
\* every blob in the bucket carries the identifier of one request, every status
\* carries the identifier of the run that emitted it, and the processed
\* artifact of a run holds the result of that run's own analysis.
C24_RunsIsolated ==
    [][/\ Cardinality({r \in Requests : Projection(r)' # Projection(r)}) <= 1
       /\ \A n \in DOMAIN store' :
             \E r \in Requests : Len(n) >= 2 /\ n[2] = "uuid" \o ToString(r)
       /\ \A r \in Requests :
             /\ \A i \in 1..Len(emitted'[r]) :
                    emitted'[r][i].doc_id = <<"uuid" \o ToString(r)>>
             /\ <<"processed/", "uuid" \o ToString(r), ".json">> \in DOMAIN store' =>
                    store'[<<"processed/", "uuid" \o ToString(r), ".json">>].data
                        = <<Ser(analysis_result'[r])>>]_vars

C24_Witness ==
    /\ pc[1] = "done" /\ pc[2] = "done"
    /\ <<"processed/", "uuid1", ".json">> \in DOMAIN store
    /\ <<"processed/", "uuid2", ".json">> \in DOMAIN store
    /\ analysis_result[1] # analysis_result[2]
    /\ LastStatus(1) = "processed" /\ LastStatus(2) = "processed"

----------------------------------------------------------------------------
(* C26 *)

\* the deletion has returned without a storage fault, and the run has returned
BothFinished ==
    /\ call.phase = "finished" /\ call.fault = "none"
    /\ \A r \in Requests : pc[r] \in {"unused", "done"}

\* C26: once a deletion of an identifier and the run for that identifier have
\* both finished, no blob of the identifier is left under raw/ or processed/,
\* and a status query for it answers 404.
C26_NothingLeftAfterDelete ==
    BothFinished =>
        /\ \A n \in DOMAIN store : ~(Len(n) >= 2 /\ <<n[2]>> = call.doc_id)
        /\ get_document_details(store, call.doc_id, "none").code = "404"

----------------------------------------------------------------------------
(* C27 *)

\* C27: the blob _find_blob_for_doc returns for identifier a is a raw blob of
\* a, never one of another identifier whose name begins with a.
C27_LocatorStaysOnIdentifier ==
    call.phase = "returned" =>
        \/ call.result = <<>>
        \/ call.result \in {<<"raw/", "a">>} \cup
               {<<"raw/", "a", e>> : e \in {".pdf", ".PDF", ".docx", ".txt", ".png"}}

====
